---- MODULE Spec2Model ----
(***************************************************************************)
(* Model of RelaxNode.deform (src/python/relax_node.py): the weighted,     *)
(* iterative neighbour-average relaxation of a mesh.                       *)
(*                                                                         *)
(* Numbers.  The code computes with floating point MPoint / MVector        *)
(* values.  They are modelled as exact rationals <<n, d>> in lowest terms   *)
(* with d > 0; the pair <<0, 0>> stands for the not-a-number value that a  *)
(* floating point 0/0 produces and it is absorbing for every operation.    *)
(* Rounding is not modelled.  A point is a triple of such numbers (the     *)
(* homogeneous w coordinate of MPoint is not modelled).                    *)
(***************************************************************************)
EXTENDS Integers, Sequences, FiniteSets, TLC

\* ------------------------------------------------------------------------
\* Bounds of the model
\* ------------------------------------------------------------------------
MaxCoord == 2     \* coordinates of the moved vertex are k/2, k \in 0..MaxCoord
MaxWeight == 2    \* painted weights are 0 or w, w \in 1..MaxWeight
MaxIter == 2      \* iterations attribute ranges up to MaxIter
MaxSteps == 3     \* steps attribute ranges up to MaxSteps
MaxPasses == 6    \* iterations * steps <= MaxPasses
NegRange == 1     \* unclamped integer controls go down to -NegRange
ConvMaxPasses == 3 \* iterations * steps <= ConvMaxPasses in SpecConv

\* ------------------------------------------------------------------------
\* Floating point arithmetic of MPoint / MVector, as exact rationals
\* ------------------------------------------------------------------------
Abs(x) == IF x < 0 THEN 0 - x ELSE x

RECURSIVE GCD(_, _)
GCD(a, b) == IF b = 0 THEN a ELSE GCD(b, a % b)

NaN == <<0, 0>>

IsNaN(a) == a[2] = 0

Norm(n, d) ==
    IF d = 0 THEN NaN
    ELSE LET g == GCD(Abs(n), d) IN <<n \div g, d \div g>>

R(n) == <<n, 1>>

Half(n) == Norm(n, 2)

RAdd(a, b) ==
    IF IsNaN(a) \/ IsNaN(b) THEN NaN
    ELSE LET g == GCD(a[2], b[2])
             l == (a[2] \div g) * b[2]
         IN  Norm(a[1] * (l \div a[2]) + b[1] * (l \div b[2]), l)

RNeg(a) == <<0 - a[1], a[2]>>

RSub(a, b) == RAdd(a, RNeg(b))

RMul(a, b) ==
    IF IsNaN(a) \/ IsNaN(b) THEN NaN
    ELSE LET g1 == GCD(Abs(a[1]), b[2])
             g2 == GCD(Abs(b[1]), a[2])
         IN  Norm((a[1] \div g1) * (b[1] \div g2), (a[2] \div g2) * (b[2] \div g1))

\* division of a float by an integer converted to float; x/0 with x = 0 is NaN
RDivInt(a, k) ==
    IF IsNaN(a) \/ k = 0 THEN NaN
    ELSE IF k > 0 THEN RMul(a, <<1, k>>)
    ELSE RMul(RNeg(a), <<1, 0 - k>>)

RLeq(a, b) ==
    LET g == GCD(a[2], b[2])
        l == (a[2] \div g) * b[2]
    IN  a[1] * (l \div a[2]) <= b[1] * (l \div b[2])

IsZero(a) == ~IsNaN(a) /\ a[1] = 0

Dims == 1..3

Origin == <<R(0), R(0), R(0)>>

PAdd(p, q) == [k \in Dims |-> RAdd(p[k], q[k])]

PSub(p, q) == [k \in Dims |-> RSub(p[k], q[k])]

PScale(p, s) == [k \in Dims |-> RMul(p[k], s)]

PDivInt(p, n) == [k \in Dims |-> RDivInt(p[k], n)]

\* a Python sequence indexed from 0
Arr(s) == [v \in 0..(Len(s) - 1) |-> s[v + 1]]

Count(f) == Cardinality(DOMAIN f)

\* ------------------------------------------------------------------------
\* Meshes and inputs the model draws from
\* ------------------------------------------------------------------------
\* MItMeshVertex.getConnectedVertices, per vertex index
Ring4 == Arr(<< <<1, 3>>, <<0, 2>>, <<1, 3>>, <<0, 2>> >>)

\* a path 0-1-2 and the isolated vertex 3
PathIso == Arr(<< <<1>>, <<0, 2>>, <<1>>, << >> >>)

Tetra == Arr(<< <<1, 2, 3>>, <<0, 2, 3>>, <<0, 1, 3>>, <<0, 1, 2>> >>)

\* flat 3x3 grid, vertex r*3+c at (c, r, 0)
Grid3x3 ==
    Arr(<< <<1, 3>>, <<0, 2, 4>>, <<1, 5>>,
           <<0, 4, 6>>, <<1, 3, 5, 7>>, <<2, 4, 8>>,
           <<3, 7>>, <<4, 6, 8>>, <<5, 7>> >>)

\* cube, vertex x + 2y + 4z at (x, y, z)
Cube ==
    Arr(<< <<1, 2, 4>>, <<0, 3, 5>>, <<0, 3, 6>>, <<1, 2, 7>>,
           <<0, 5, 6>>, <<1, 4, 7>>, <<2, 4, 7>>, <<3, 5, 6>> >>)

Pt(x, y, z) == <<R(x), R(y), R(z)>>

CubePos == [v \in 0..7 |-> Pt(v % 2, (v \div 2) % 2, v \div 4)]

Square == Arr(<<Pt(0, 0, 0), Pt(1, 0, 0), Pt(1, 1, 0), Pt(0, 1, 0)>>)

TetraPos == Arr(<<Pt(0, 0, 0), Pt(1, 0, 0), Pt(0, 1, 0), Pt(0, 0, 1)>>)

GridPos == [v \in 0..8 |-> Pt(v % 3, v \div 3, 0)]

\* positions tried for the moved vertex: on the x axis and on the diagonal
Points ==
    {<<Half(x), R(0), R(0)>> : x \in 0..MaxCoord}
        \cup {<<Half(x), Half(x), R(0)>> : x \in 0..MaxCoord}

Meshes == {Ring4, PathIso, Tetra}

\* sets of painted vertices of a mesh of n vertices; n itself is an index
\* past the end of the position array
WeightedSets(n) == {{}, {0}, {0, n - 1}, 0..(n - 1), {0, n}, {n - 1, n}}

Painted(S, n, w) ==
    [index \in (0..(n - 1)) \cup S |-> IF index \in S THEN R(w) ELSE R(0)]

\* ------------------------------------------------------------------------
\* Pure parts of the code
\* ------------------------------------------------------------------------
\* get_weighted_componenents: the indices with a truthy weight
get_weighted_componenents(weights) ==
    [index \in {x \in DOMAIN weights : ~IsZero(weights[x])} |-> weights[index]]

\* variant: the test of steps is missing
ControlsDisabledNoSteps(env, iters, steps, strength) ==
    IsZero(env) \/ iters = 0 \/ IsZero(strength)

\* variant: the integer controls are tested for "not positive"
ControlsDisabledNonPositive(env, iters, steps, strength) ==
    IsZero(env) \/ iters <= 0 \/ steps <= 0 \/ IsZero(strength)

\* the four "if not <control>: return False" tests of deform
ControlsDisabled(env, iters, steps, strength) ==
    IsZero(env) \/ iters = 0 \/ steps = 0 \/ IsZero(strength)

RECURSIVE total_pos(_, _)
total_pos(positions, vertices) ==
    IF vertices = << >> THEN Origin
    ELSE PAdd(total_pos(positions, Tail(vertices)), positions[Head(vertices)])

\* variant: the total is returned undivided
TotalNotAverage(positions, vertices) == total_pos(positions, vertices)

\* get_component_average_position
get_component_average_position(positions, vertices) ==
    PDivInt(total_pos(positions, vertices), Len(vertices))

\* variant: the difference is taken the other way round
OffsetReversed(average_pos, current_pos, weight, env, strength) ==
    PScale(PScale(PScale(PSub(current_pos, average_pos), weight), env), strength)

offset_pos(average_pos, current_pos, weight, env, strength) ==
    PScale(PScale(PScale(PSub(average_pos, current_pos), weight), env), strength)

\* variant: the divisor counts up with the sub-pass
DivisorAscending(steps, s) == s + 1

Divisor(steps, s) == steps - s

new_pos(current_pos, offset, steps, s) ==
    PAdd(current_pos, PDivInt(offset, Divisor(steps, s)))

\* variant: the new buffer is allocated but not copied into
InitNewPositionsZeroed(positions) == [v \in DOMAIN positions |-> Origin]

\* MPointArray(all_positions) followed by copy(all_positions)
InitNewPositions(positions) == positions

\* variant: positions are read from the buffer being written
SetNewPositionInPlace(new_buf, old_buf, nbrs, index, weight, env, strength, steps, s) ==
    [new_buf EXCEPT ![index] =
        new_pos(new_buf[index],
                offset_pos(get_component_average_position(new_buf, nbrs[index]),
                           new_buf[index], weight, env, strength),
                steps, s)]

\* body of "for index in comp_weight_data" for one index with a valid position
SetNewPosition(new_buf, old_buf, nbrs, index, weight, env, strength, steps, s) ==
    [new_buf EXCEPT ![index] =
        new_pos(old_buf[index],
                offset_pos(get_component_average_position(old_buf, nbrs[index]),
                           old_buf[index], weight, env, strength),
                steps, s)]

\* ------------------------------------------------------------------------
\* State
\* ------------------------------------------------------------------------
VARIABLES
    connected,          \* mesh topology: vertex -> connected vertices
    geom_positions,     \* positions held by the geometry (geom_iter)
    weightValue,        \* painted weight per geometry index
    env_value, iter_value, steps_value, strength_value,
    comp_weight_data,   \* dict index -> weight
    all_positions, new_positions,
    i, step,            \* the two range() counters
    todo,               \* indices the for-loop over comp_weight_data has left
    pc,                 \* "start", "iter", "step", "vertex", "done", "error"
    ret,                \* "none", TRUE, FALSE
    err,                \* "none", "OutOfRange", "ZeroDivision"
    in_positions,       \* history: geometry positions at entry
    snapshot,           \* history: all_positions when the sub-pass began
    iter_start,         \* history: all_positions when the iteration began
    passes,             \* history: number of completed sub-passes
    divisors,           \* history: per sub-pass of this iteration, divisors used
    written             \* history: setAllPositions was called

inputs == <<connected, weightValue, env_value, iter_value, steps_value,
            strength_value, in_positions>>

vars == <<connected, geom_positions, weightValue, env_value, iter_value,
          steps_value, strength_value, comp_weight_data, all_positions,
          new_positions, i, step, todo, pc, ret, err, in_positions, snapshot,
          iter_start, passes, divisors, written>>

EmptyBuf == << >>

Fresh ==
    /\ comp_weight_data = EmptyBuf
    /\ all_positions = EmptyBuf
    /\ new_positions = EmptyBuf
    /\ i = 0
    /\ step = 0
    /\ todo = {}
    /\ pc = "start"
    /\ ret = "none"
    /\ err = "none"
    /\ in_positions = geom_positions
    /\ snapshot = EmptyBuf
    /\ iter_start = EmptyBuf
    /\ passes = 0
    /\ divisors = << >>
    /\ written = FALSE

\* controls inside the ranges the node declares (setMin(0) on each)
Init ==
    /\ connected \in Meshes
    /\ \E p \in Points : geom_positions = [Square EXCEPT ![0] = p]
    /\ \E S \in WeightedSets(Count(connected)), w \in 1..MaxWeight :
           weightValue = Painted(S, Count(connected), w)
    /\ env_value \in {R(0), R(1)}
    /\ strength_value \in {R(0), Half(1), R(1)}
    /\ iter_value \in 0..MaxIter
    /\ steps_value \in 0..MaxSteps
    /\ iter_value * steps_value <= MaxPasses
    /\ Fresh

\* ------------------------------------------------------------------------
\* deform, step by step
\* ------------------------------------------------------------------------
\* lines 135-149: a zero control returns False
ReturnDisabled ==
    /\ pc = "start"
    /\ ControlsDisabled(env_value, iter_value, steps_value, strength_value)
    /\ pc' = "done"
    /\ ret' = FALSE
    /\ UNCHANGED <<inputs, geom_positions, comp_weight_data, all_positions,
                   new_positions, i, step, todo, err, snapshot, iter_start,
                   passes, divisors, written>>

\* lines 152-154: an empty weight dictionary returns False
ReturnNoWeights ==
    /\ pc = "start"
    /\ ~ControlsDisabled(env_value, iter_value, steps_value, strength_value)
    /\ get_weighted_componenents(weightValue) = EmptyBuf
    /\ pc' = "done"
    /\ ret' = FALSE
    /\ UNCHANGED <<inputs, geom_positions, comp_weight_data, all_positions,
                   new_positions, i, step, todo, err, snapshot, iter_start,
                   passes, divisors, written>>

\* lines 152-164: weights collected, start positions read
Begin ==
    /\ pc = "start"
    /\ ~ControlsDisabled(env_value, iter_value, steps_value, strength_value)
    /\ get_weighted_componenents(weightValue) # EmptyBuf
    /\ comp_weight_data' = get_weighted_componenents(weightValue)
    /\ all_positions' = geom_positions
    /\ i' = 0
    /\ pc' = "iter"
    /\ UNCHANGED <<inputs, geom_positions, new_positions, step, todo, ret, err,
                   snapshot, iter_start, passes, divisors, written>>

\* line 167: next value of range(iter_value)
IterNext ==
    /\ pc = "iter"
    /\ i < iter_value
    /\ step' = 0
    /\ iter_start' = all_positions
    /\ divisors' = << >>
    /\ pc' = "step"
    /\ UNCHANGED <<inputs, geom_positions, comp_weight_data, all_positions,
                   new_positions, i, todo, ret, err, snapshot, passes, written>>

\* lines 168-171: next value of range(steps_value), new buffer copied
StepBegin ==
    /\ pc = "step"
    /\ step < steps_value
    /\ new_positions' = InitNewPositions(all_positions)
    /\ snapshot' = all_positions
    /\ todo' = DOMAIN comp_weight_data
    /\ divisors' = Append(divisors, {})
    /\ pc' = "vertex"
    /\ UNCHANGED <<inputs, geom_positions, comp_weight_data, all_positions,
                   i, step, ret, err, iter_start, passes, written>>

\* range(steps_value) exhausted: back to the outer loop
IterEnd ==
    /\ pc = "step"
    /\ step >= steps_value
    /\ i' = i + 1
    /\ pc' = "iter"
    /\ UNCHANGED <<inputs, geom_positions, comp_weight_data, all_positions,
                   new_positions, step, todo, ret, err, snapshot, iter_start,
                   passes, divisors, written>>

\* variant: an index past the array is skipped
VertexOutOfRangeSkipped(index) ==
    /\ pc = "vertex"
    /\ index \in todo
    /\ index \notin DOMAIN all_positions
    /\ todo' = todo \ {index}
    /\ UNCHANGED <<inputs, geom_positions, comp_weight_data, all_positions,
                   new_positions, i, step, pc, ret, err, snapshot, iter_start,
                   passes, divisors, written>>

\* line 176: all_positions[index] with an index past the array raises
VertexOutOfRange(index) ==
    /\ pc = "vertex"
    /\ index \in todo
    /\ index \notin DOMAIN all_positions
    /\ todo' = todo \ {index}
    /\ pc' = "error"
    /\ err' = "OutOfRange"
    /\ UNCHANGED <<inputs, geom_positions, comp_weight_data, all_positions,
                   new_positions, i, step, ret, snapshot, iter_start, passes,
                   divisors, written>>

\* line 103 with no connected vertex: the division by zero raises
VertexDivideRaises(index) ==
    /\ pc = "vertex"
    /\ index \in todo
    /\ index \in DOMAIN all_positions
    /\ connected[index] = << >>
    /\ todo' = todo \ {index}
    /\ pc' = "error"
    /\ err' = "ZeroDivision"
    /\ UNCHANGED <<inputs, geom_positions, comp_weight_data, all_positions,
                   new_positions, i, step, ret, snapshot, iter_start, passes,
                   divisors, written>>

\* lines 174-186; with no connected vertex the division yields not-a-number
VertexUpdate(index) ==
    /\ pc = "vertex"
    /\ index \in todo
    /\ index \in DOMAIN all_positions
    /\ new_positions' =
           SetNewPosition(new_positions, all_positions, connected, index,
                          comp_weight_data[index], env_value, strength_value,
                          steps_value, step)
    /\ divisors' = [divisors EXCEPT ![Len(divisors)] =
                        @ \cup {Divisor(steps_value, step)}]
    /\ todo' = todo \ {index}
    /\ UNCHANGED <<inputs, geom_positions, comp_weight_data, all_positions,
                   i, step, pc, ret, err, snapshot, iter_start, passes, written>>

\* line 189: the new buffer becomes the stored one
StepEnd ==
    /\ pc = "vertex"
    /\ todo = {}
    /\ all_positions' = new_positions
    /\ step' = step + 1
    /\ passes' = passes + 1
    /\ pc' = "step"
    /\ UNCHANGED <<inputs, geom_positions, comp_weight_data, new_positions,
                   i, todo, ret, err, snapshot, iter_start, divisors, written>>

\* lines 192-194: positions written back, True returned
WriteBack ==
    /\ pc = "iter"
    /\ i >= iter_value
    /\ geom_positions' = all_positions
    /\ written' = TRUE
    /\ ret' = TRUE
    /\ pc' = "done"
    /\ UNCHANGED <<inputs, comp_weight_data, all_positions, new_positions,
                   i, step, todo, err, snapshot, iter_start, passes, divisors>>

Next ==
    \/ ReturnDisabled
    \/ ReturnNoWeights
    \/ Begin
    \/ IterNext
    \/ StepBegin
    \/ IterEnd
    \/ \E index \in todo : VertexOutOfRange(index)
    \/ \E index \in todo : VertexDivideRaises(index)
    \/ \E index \in todo : VertexUpdate(index)
    \/ StepEnd
    \/ WriteBack

Spec == Init /\ [][Next]_vars

\* deform called with integer controls below the declared minimum of 0
InitUnclamped ==
    /\ connected \in Meshes
    /\ geom_positions = Square
    /\ \E S \in WeightedSets(Count(connected)), w \in 1..MaxWeight :
           weightValue = Painted(S, Count(connected), w)
    /\ env_value \in {R(0), R(1)}
    /\ strength_value \in {R(0), Half(1), R(1)}
    /\ iter_value \in (0 - NegRange)..MaxIter
    /\ steps_value \in (0 - NegRange)..MaxSteps
    /\ iter_value * steps_value <= MaxPasses
    /\ Fresh

SpecUnclamped == InitUnclamped /\ [][Next]_vars

\* closed regular meshes painted uniformly with weight 1 (the boundary of
\* the grid is left unpainted), envelope 1 and strength 1
ConvScenes ==
    { [mesh |-> Ring4, pos |-> Square, painted |-> 0..3, moved |-> 0],
      [mesh |-> Tetra, pos |-> TetraPos, painted |-> 0..3, moved |-> 0],
      [mesh |-> Cube, pos |-> CubePos, painted |-> 0..7, moved |-> 0],
      [mesh |-> Grid3x3, pos |-> GridPos, painted |-> {4}, moved |-> 4] }

\* the same call on the open path with an isolated vertex, every painting
StrayScenes ==
    { [mesh |-> PathIso, pos |-> Square, painted |-> S, moved |-> 0] :
          S \in WeightedSets(Count(PathIso)) }

InitConv ==
    /\ \E sc \in ConvScenes \cup StrayScenes, p \in Points :
           /\ connected = sc.mesh
           /\ geom_positions = [sc.pos EXCEPT ![sc.moved] = p]
           /\ weightValue = Painted(sc.painted, Count(sc.mesh), 1)
    /\ env_value = R(1)
    /\ strength_value = R(1)
    /\ iter_value \in 0..MaxIter
    /\ steps_value \in 0..MaxSteps
    /\ iter_value * steps_value <= ConvMaxPasses
    /\ Fresh

SpecConv == InitConv /\ [][Next]_vars

\* ------------------------------------------------------------------------
\* Vocabulary of the properties
\* ------------------------------------------------------------------------
Vertices == DOMAIN in_positions

WeightMap == get_weighted_componenents(weightValue)

Weighted(v) == v \in DOMAIN WeightMap

Isolated(v) == connected[v] = << >>

NoOpCase ==
    \/ IsZero(env_value)
    \/ IsZero(strength_value)
    \/ iter_value = 0
    \/ steps_value = 0
    \/ WeightMap = EmptyBuf

\* vertices the running sub-pass has already handled
Processed == (DOMAIN comp_weight_data \ todo) \cap Vertices

Elems(seq) == {seq[k] : k \in 1..Len(seq)}

\* the term (avg - pos) * weight * envelope * strength on buffer buf
RawTerm(buf, v) ==
    PScale(PSub(get_component_average_position(buf, connected[v]), buf[v]),
           RMul(RMul(WeightMap[v], env_value), strength_value))

\* (C1) With envelope, strength, iterations or steps zero, or with no
\* vertex of nonzero weight, deform runs no sub-pass, never writes
\* positions back, leaves the geometry as it was and returns False.
C1_NoOpGuards ==
    NoOpCase =>
        /\ pc \in {"start", "done"}
        /\ passes = 0
        /\ ~written
        /\ geom_positions = in_positions
        /\ all_positions = EmptyBuf
        /\ pc = "done" => ret = FALSE

W_C1 ==
    /\ pc = "done"
    /\ ret = FALSE
    /\ steps_value = 0
    /\ iter_value > 0
    /\ ~IsZero(env_value)
    /\ ~IsZero(strength_value)
    /\ WeightMap # EmptyBuf

\* (C2) A vertex without a nonzero weight keeps its input position in
\* every buffer at every point of the call, and the average computed for a
\* weighted vertex takes its unweighted neighbours at their input positions.
C2_UnweightedFixed ==
    /\ \A v \in Vertices :
           ~Weighted(v) =>
               /\ geom_positions[v] = in_positions[v]
               /\ all_positions # EmptyBuf => all_positions[v] = in_positions[v]
               /\ new_positions # EmptyBuf => new_positions[v] = in_positions[v]
    /\ pc = "vertex" =>
           \A v \in Processed :
               ~Isolated(v) =>
                   new_positions[v] =
                       PAdd(snapshot[v],
                            PDivInt(RawTerm([u \in Vertices |->
                                                IF Weighted(u) THEN snapshot[u]
                                                ELSE in_positions[u]], v),
                                    steps_value - step))

W_C2 ==
    /\ pc = "vertex"
    /\ passes >= 1
    /\ \E v \in Processed, u \in Vertices :
           /\ ~Weighted(u)
           /\ u \in Elems(connected[v])
           /\ snapshot[v] # in_positions[v]
           /\ new_positions[v] # snapshot[v]

\* (C3) A weighted vertex without connected vertices is skipped: no
\* division by zero happens for it and it keeps its input position.
CE_C3 ==
    \A v \in Vertices :
        (Weighted(v) /\ Isolated(v)) =>
            /\ err # "ZeroDivision"
            /\ geom_positions[v] = in_positions[v]
            /\ all_positions # EmptyBuf => all_positions[v] = in_positions[v]
            /\ new_positions # EmptyBuf => new_positions[v] = in_positions[v]

\* (C4) In every iteration the k-th sub-pass moves each weighted vertex by
\* its raw term divided by steps - k + 1: the divisors of an iteration are
\* steps, steps-1, ..., 1, never below 1, and start again at steps in the
\* next iteration.
C4_DampingSchedule ==
    /\ Len(divisors) <= steps_value \/ divisors = << >>
    /\ \A k \in 1..Len(divisors) :
           /\ divisors[k] \subseteq {steps_value - k + 1}
           /\ steps_value - k + 1 >= 1
           /\ (k < Len(divisors) \/ pc \notin {"vertex", "error"}) => divisors[k] # {}
    /\ (pc = "iter" /\ i >= 1) => Len(divisors) = steps_value
    /\ pc = "vertex" =>
           \A v \in Processed :
               ~Isolated(v) =>
                   PSub(new_positions[v], snapshot[v]) =
                       PDivInt(RawTerm(snapshot, v),
                               steps_value - Len(divisors) + 1)

W_C4 ==
    /\ pc = "iter"
    /\ i = 2
    /\ steps_value = 3
    /\ divisors = << {3}, {2}, {1} >>
    /\ all_positions # iter_start

\* the buffer a sub-pass numbered s (from 0) yields from buffer buf,
\* each vertex computed on its own
SubPassOf(buf, s) ==
    [v \in DOMAIN buf |->
        IF v \in DOMAIN comp_weight_data
        THEN PAdd(buf[v], PDivInt(RawTerm(buf, v), steps_value - s))
        ELSE buf[v]]

\* (C5) During a sub-pass the stored positions stay the snapshot taken at
\* its start, every handled vertex holds the value computed from that
\* snapshot alone, and the finished buffer is the same whatever the order.
C5_SnapshotReads ==
    /\ pc = "vertex" =>
           /\ all_positions = snapshot
           /\ \A v \in Vertices :
                  new_positions[v] =
                      IF v \in Processed THEN SubPassOf(snapshot, step)[v]
                      ELSE snapshot[v]
    /\ (pc = "step" /\ step >= 1) => all_positions = SubPassOf(snapshot, step - 1)

W_C5 ==
    /\ pc = "vertex"
    /\ \E u \in Processed, v \in todo \cap Vertices :
           /\ u \in Elems(connected[v])
           /\ new_positions[u] # snapshot[u]
           /\ snapshot[v] # get_component_average_position(snapshot, connected[v])

RingScenario ==
    /\ connected = Ring4
    /\ in_positions = Square
    /\ weightValue = Painted({0}, 4, 1)
    /\ env_value = R(1)
    /\ strength_value = R(1)
    /\ iter_value = 1
    /\ steps_value = 1

\* (C6) On the ring scenario the call ends with vertex 0 at (1/2, 1/2, 0)
\* and the others where they were; and with steps = 1 and
\* weight * envelope * strength = 1 a sub-pass puts a weighted vertex at
\* the mean of its neighbours' positions before the pass.
C6_RingAndMean ==
    /\ (RingScenario /\ pc = "done") =>
           /\ ret = TRUE
           /\ geom_positions = [Square EXCEPT ![0] = <<Half(1), Half(1), R(0)>>]
    /\ (steps_value = 1 /\ pc = "step" /\ step = 1) =>
           \A v \in DOMAIN comp_weight_data \cap Vertices :
               (/\ ~Isolated(v)
                /\ RMul(RMul(WeightMap[v], env_value), strength_value) = R(1)) =>
                   all_positions[v] =
                       get_component_average_position(snapshot, connected[v])

W_C6 ==
    /\ RingScenario
    /\ pc = "done"
    /\ geom_positions[0] # in_positions[0]

RSquare(a) == RMul(a, a)

RECURSIVE Deviation(_, _)
\* sum over the weighted vertices in S of the squared distance between the
\* vertex and the mean of its neighbours, on buffer buf
Deviation(buf, S) ==
    IF S = {} THEN R(0)
    ELSE LET v == CHOOSE x \in S : TRUE
             d == PSub(buf[v], get_component_average_position(buf, connected[v]))
         IN  RAdd(RAdd(RAdd(RSquare(d[1]), RSquare(d[2])), RSquare(d[3])),
                  Deviation(buf, S \ {v}))

\* every weighted vertex is a vertex with weight 1 and all have the same,
\* nonzero number of connected vertices; envelope and strength are 1
RegularUniformCase ==
    /\ env_value = R(1)
    /\ strength_value = R(1)
    /\ WeightMap # EmptyBuf
    /\ \A v \in DOMAIN WeightMap :
           /\ v \in Vertices
           /\ WeightMap[v] = R(1)
           /\ ~Isolated(v)
           /\ \A u \in DOMAIN WeightMap :
                  u \in Vertices => Len(connected[u]) = Len(connected[v])

\* (C7) On a regular mesh painted uniformly with weight 1, with strength 1
\* and envelope 1, the summed squared distance of the weighted vertices to
\* their neighbour means after an iteration is never larger than before it.
C7_DeviationShrinks ==
    (RegularUniformCase /\ pc = "iter" /\ i >= 1) =>
        RLeq(Deviation(all_positions, DOMAIN WeightMap),
             Deviation(iter_start, DOMAIN WeightMap))

W_C7 ==
    /\ RegularUniformCase
    /\ connected = Cube
    /\ pc = "iter"
    /\ i >= 1
    /\ steps_value >= 2
    /\ Deviation(all_positions, DOMAIN WeightMap)
           # Deviation(iter_start, DOMAIN WeightMap)
    /\ ~IsZero(Deviation(all_positions, DOMAIN WeightMap))

\* indices of the weight dictionary that are no index of the positions
BadIndices == DOMAIN comp_weight_data \ Vertices

\* (C8) With an index outside the position array in the weight dictionary
\* the call never completes a sub-pass, never writes positions back and
\* never returns; once the loop takes that index the call has raised the
\* out-of-range error.  A call that raised has left the geometry as it was
\* at entry, and positions are written only after the last sub-pass.
C8_FailFast ==
    /\ BadIndices # {} =>
           /\ pc # "done"
           /\ passes = 0
           /\ \A x \in BadIndices :
                  (pc \in {"vertex", "error"} /\ x \notin todo) =>
                      (pc = "error" /\ err = "OutOfRange")
    /\ pc = "error" =>
           /\ ~written
           /\ ret = "none"
           /\ geom_positions = in_positions
    /\ written =>
           /\ pc = "done"
           /\ passes = iter_value * steps_value
           /\ geom_positions = all_positions

W_C8 ==
    /\ pc = "error"
    /\ err = "OutOfRange"
    /\ new_positions # snapshot
    /\ geom_positions = in_positions

\* every weighted vertex that has connected vertices sits at their mean
FixedPointInput ==
    \A v \in DOMAIN WeightMap \cap Vertices :
        ~Isolated(v) =>
            in_positions[v] =
                get_component_average_position(in_positions, connected[v])

\* (C9) From a fixed-point input with nonzero controls the stored
\* positions equal the input positions after every sub-pass.
CE_C9 ==
    (FixedPointInput /\ ~NoOpCase /\ iter_value >= 1 /\ steps_value >= 1) =>
        /\ all_positions # EmptyBuf => all_positions = in_positions
        /\ geom_positions = in_positions

\* the same without a weighted vertex that has no connected vertex
C9_FixedPointConnected ==
    (/\ FixedPointInput
     /\ \A v \in DOMAIN WeightMap \cap Vertices : ~Isolated(v)) =>
        /\ all_positions # EmptyBuf => all_positions = in_positions
        /\ new_positions # EmptyBuf => new_positions = in_positions
        /\ geom_positions = in_positions

NegativeCase ==
    /\ iter_value < 0 \/ steps_value < 0
    /\ iter_value # 0
    /\ steps_value # 0
    /\ ~IsZero(env_value)
    /\ ~IsZero(strength_value)
    /\ WeightMap # EmptyBuf

\* (C10) With iterations or steps negative and nothing zero, deform takes
\* no early exit, runs no sub-pass, evaluates no divisor, writes back the
\* input positions and returns True; a zero control returns False without
\* writing; no divisor below 1 is ever evaluated.
C10_NegativeCounts ==
    /\ NegativeCase =>
           /\ pc # "error"
           /\ passes = 0
           /\ divisors = << >>
           /\ geom_positions = in_positions
           /\ pc = "done" => (ret = TRUE /\ written)
    /\ (pc = "done"
        /\ ControlsDisabled(env_value, iter_value, steps_value, strength_value)) =>
           (ret = FALSE /\ ~written)
    /\ \A k \in 1..Len(divisors) : \A d \in divisors[k] : d >= 1

W_C10 ==
    /\ NegativeCase
    /\ steps_value < 0
    /\ iter_value > 1
    /\ i = iter_value
    /\ pc = "done"
    /\ ret = TRUE
    /\ written

====
